---- MODULE Spec2Model ----
(***************************************************************************)
(* Authentication and session lifecycle of the client portal backend:      *)
(* login with account lockout, refresh-token rotation, logout, the         *)
(* per-request access guard and the audit log (backend/app).               *)
(*                                                                         *)
(* The store (tables users, sessions, audit_log) holds committed rows.     *)
(* A handler is a function from the store, the clock and the request to    *)
(* the new store and the response; the sequential specification Spec runs  *)
(* one handler per step.  The specification SpecRefreshRace runs two       *)
(* refresh requests as separate workers, one statement or commit per step. *)
(***************************************************************************)
EXTENDS Integers, Sequences, FiniteSets, TLC

(***************************************************************************)
(* Bounds of the model.  The clock counts seconds (the resolution of a     *)
(* token's exp claim).  The four settings are environment-sourced          *)
(* (core/config.py, defaults 15 min, 7 days, 5 attempts, 15 min); the      *)
(* model instantiates them with small values, in clock ticks.              *)
(***************************************************************************)
MaxTime == 3
MaxSessions == 3
MaxAudit == 3
MaxLoginAudit == 4
MaxLockoutOps == 2
ACCESS_TOKEN_EXPIRE == 1
REFRESH_TOKEN_EXPIRE == 2
MAX_FAILED_LOGIN_ATTEMPTS == 3
ACCOUNT_LOCKOUT_DURATION == 1

(***************************************************************************)
(* Values.                                                                 *)
(***************************************************************************)
\* SQL NULL / Python None of a timestamp column; of a string.
NullTime == 0 - 1
None == "None"

\* The rows of table users (no handler inserts or deletes a user).
UserIds == {"u1", "u2"}
\* A well-formed id that is the key of no row, and a string that is no UUID.
GhostId == "u9"
BadUuid == "not-a-uuid"

email(u) == IF u = "u1" THEN "u1@portal.dev" ELSE "u2@portal.dev"
username(u) == IF u = "u1" THEN "user1" ELSE "user2"
role(u) == IF u = "u1" THEN "admin" ELSE "user"

\* Request inputs.
Identifiers == {"u1@portal.dev", "user2", "nobody@portal.dev"}
GoodPassword == "Chris@123!"
Passwords == {GoodPassword, "wrong-pw"}
\* (ip_address, user_agent) of a request.
Contexts == {<<"10.0.0.7", "Mozilla/5.0 (iPhone)">>}

VARIABLES
    now,        \* datetime.utcnow(), in seconds
    users,      \* table users: id -> row
    sessions,   \* table sessions: sequence of rows, the index is the id
    audit_log,  \* table audit_log: sequence of rows in insertion order
    last,       \* the request handled last and its response
    rotated,    \* history: refresh tokens for which a refresh has succeeded
    killed,     \* history: refresh tokens of sessions that existed at a logout without a token
    streak,     \* history: per account, wrong-password logins since (0, NULL)
    workers     \* concurrent requests: worker -> its position and ORM session

vars == <<now, users, sessions, audit_log, last, rotated, killed, streak, workers>>

(***************************************************************************)
(* core/security.py                                                        *)
(***************************************************************************)
\* bcrypt digest of a password: one-way, the digest is not the plaintext.
hash_password(password) == <<"$2b$12$", password>>

verify_password(plain_password, hashed_password) ==
    hash_password(plain_password) = hashed_password

\* jwt.encode with the secret key: deterministic in the payload (HS256),
\* so a token is its signed payload.  role is None where the claim is absent.
jwt_encode(payload) == [sig |-> "ok"] @@ payload

\* Faulty variant: the access token is minted by the refresh-token function.
create_access_token_as_refresh(sub, rl, t) ==
    jwt_encode([type |-> "refresh", sub |-> sub, role |-> None,
                exp |-> t + REFRESH_TOKEN_EXPIRE])

create_access_token(sub, rl, t) ==
    jwt_encode([type |-> "access", sub |-> sub, role |-> rl,
                exp |-> t + ACCESS_TOKEN_EXPIRE])

\* Faulty variant: the refresh token carries the kind of an access token.
create_refresh_token_typed_access(sub, t) ==
    jwt_encode([type |-> "access", sub |-> sub, role |-> None,
                exp |-> t + REFRESH_TOKEN_EXPIRE])

create_refresh_token(sub, t) ==
    jwt_encode([type |-> "refresh", sub |-> sub, role |-> None,
                exp |-> t + REFRESH_TOKEN_EXPIRE])

\* No token (an optional argument left out, a response without tokens).
NoToken == [sig |-> None, type |-> None, sub |-> None, role |-> None, exp |-> 0]
\* A string that is no token signed with the key.
GarbageToken == [sig |-> "bad", type |-> "access", sub |-> "u1", role |-> "admin", exp |-> MaxTime]

\* Faulty variant: tokens past their exp are accepted.
decode_token_ignores_exp(token, t) ==
    IF token.sig = "ok" THEN token ELSE NoToken

\* jwt.decode: None (here NoToken) on a bad signature or when exp has passed.
decode_token(token, t) ==
    IF token.sig = "ok" /\ token.exp >= t THEN token ELSE NoToken

(***************************************************************************)
(* models/user.py, models/session.py                                       *)
(***************************************************************************)
\* Faulty variant: the lock ends one second early.
is_locked_ends_early(user, t) ==
    IF user.locked_until = NullTime THEN FALSE ELSE t + 1 < user.locked_until

is_locked(user, t) ==
    IF user.locked_until = NullTime THEN FALSE ELSE t < user.locked_until

is_expired(session, t) == t > session.expires_at

is_valid(session, t) == ~session.is_revoked /\ ~is_expired(session, t)

(***************************************************************************)
(* Rows and the store's constraints.                                       *)
(***************************************************************************)
UserRow(active) ==
    [is_active |-> active, failed_login_attempts |-> 0, locked_until |-> NullTime,
     last_login_at |-> NullTime, password_hash |-> hash_password(GoodPassword)]

\* SessionModel(...): is_revoked defaults to False.  created_at and
\* last_used_at are written once by their defaults and never read.
SessionModel(user_id, refresh_token, ip_address, user_agent, device_type, expires_at) ==
    [user_id |-> user_id, refresh_token |-> refresh_token, ip_address |-> ip_address,
     user_agent |-> user_agent, device_type |-> device_type,
     expires_at |-> expires_at, is_revoked |-> FALSE]

\* db.query(User).filter((email == x) | (username == x)).first()
find_user(identifier) ==
    IF \E u \in UserIds : email(u) = identifier \/ username(u) = identifier
    THEN CHOOSE u \in UserIds : email(u) = identifier \/ username(u) = identifier
    ELSE None

\* db.query(SessionModel).filter(refresh_token == token).first(): the id of
\* the row, 0 when there is none.
find_session(S, token) ==
    IF \E i \in 1..Len(S) : S[i].refresh_token = token
    THEN CHOOSE i \in 1..Len(S) : S[i].refresh_token = token
    ELSE 0

\* db.query(SessionModel).filter(user_id == u, refresh_token == token).first()
find_user_session(S, u, token) ==
    IF \E i \in 1..Len(S) : S[i].user_id = u /\ S[i].refresh_token = token
    THEN CHOOSE i \in 1..Len(S) : S[i].user_id = u /\ S[i].refresh_token = token
    ELSE 0

\* sessions.refresh_token is unique=True: an INSERT of a token already in
\* the table raises IntegrityError.
unique_violation(S, row) ==
    \E i \in 1..Len(S) : S[i].refresh_token = row.refresh_token

(***************************************************************************)
(* services/audit_service.py                                               *)
(***************************************************************************)
\* Faulty variant: the newest row is overwritten instead of a row being added.
log_audit_event_overwrites(A, user_id, action, outcome, ip_address, user_agent, metadata) ==
    LET row == [user_id |-> user_id, action |-> action, outcome |-> outcome,
                ip_address |-> ip_address, user_agent |-> user_agent,
                metadata |-> metadata]
    IN  IF A = <<>> THEN <<row>> ELSE [A EXCEPT ![Len(A)] = row]

\* log_audit_event: adds one row and commits.
log_audit_event(A, user_id, action, outcome, ip_address, user_agent, metadata) ==
    Append(A, [user_id |-> user_id, action |-> action, outcome |-> outcome,
               ip_address |-> ip_address, user_agent |-> user_agent,
               metadata |-> metadata])

(***************************************************************************)
(* services/auth_service.py                                                *)
(***************************************************************************)
\* The substrings of user_agent.lower() that _detect_device_type looks for.
ua_markers(user_agent) ==
    IF user_agent = "Mozilla/5.0 (iPhone)" THEN {"iphone"}
    ELSE IF user_agent = "Mozilla/5.0 (iPad; Tablet)" THEN {"ipad", "tablet"}
    ELSE {}

detect_device_type(user_agent) ==
    IF user_agent = None THEN "unknown"
    ELSE IF ua_markers(user_agent) \cap {"mobile", "android", "iphone"} # {} THEN "mobile"
    ELSE IF ua_markers(user_agent) \cap {"tablet", "ipad"} # {} THEN "tablet"
    ELSE "desktop"

\* What a handler leaves behind: the committed tables and the response
\* (status 500: the exception was no HTTPException).
Outcome(U, S, A, status, detail, access_token, refresh_token) ==
    [users |-> U, sessions |-> S, audit_log |-> A, status |-> status,
     detail |-> detail, access_token |-> access_token, refresh_token |-> refresh_token]

\* Faulty variant: > for >=.
max_attempts_exceeded(n) == n > MAX_FAILED_LOGIN_ATTEMPTS

\* Line 96: the attempt that locks the account.
max_attempts_reached(n) == n >= MAX_FAILED_LOGIN_ATTEMPTS

\* Faulty variant: = 1 for += 1.
failed_attempt_sets_one(user, t) ==
    IF max_attempts_reached(1)
    THEN [user EXCEPT !.failed_login_attempts = 1,
                      !.locked_until = t + ACCOUNT_LOCKOUT_DURATION]
    ELSE [user EXCEPT !.failed_login_attempts = 1]

\* The account after a password mismatch (lines 93-99).
failed_attempt(user, t) ==
    LET n == user.failed_login_attempts + 1 IN
    IF max_attempts_reached(n)
    THEN [user EXCEPT !.failed_login_attempts = n,
                      !.locked_until = t + ACCOUNT_LOCKOUT_DURATION]
    ELSE [user EXCEPT !.failed_login_attempts = n]

\* Faulty variant: the lockout-expiry is not cleared.
successful_attempt_keeps_lock(user, t) ==
    [user EXCEPT !.failed_login_attempts = 0, !.last_login_at = t]

\* The account after a password match (lines 143-145).
successful_attempt(user, t) ==
    [user EXCEPT !.failed_login_attempts = 0, !.locked_until = NullTime,
                 !.last_login_at = t]

\* Faulty variant: the session expires with the access token.
login_session_access_ttl(u, refresh_token, ip_address, user_agent, t) ==
    SessionModel(u, refresh_token, ip_address, user_agent,
                 detect_device_type(user_agent), t + ACCESS_TOKEN_EXPIRE)

\* The session row of a login (lines 157-164).
login_session(u, refresh_token, ip_address, user_agent, t) ==
    SessionModel(u, refresh_token, ip_address, user_agent,
                 detect_device_type(user_agent), t + REFRESH_TOKEN_EXPIRE)

authenticate_user(U, S, A, t, email_or_username, password, ip_address, user_agent) ==
    LET u == find_user(email_or_username) IN
    IF u = None THEN
        Outcome(U, S,
                log_audit_event(A, None, "login_failure", "failure", ip_address, user_agent,
                    [email_or_username |-> email_or_username, reason |-> "user_not_found"]),
                401, "Invalid credentials", NoToken, NoToken)
    ELSE IF ~U[u].is_active THEN
        Outcome(U, S,
                log_audit_event(A, u, "login_failure", "failure", ip_address, user_agent,
                    [email |-> email(u), reason |-> "account_deactivated"]),
                403, "Account has been deactivated", NoToken, NoToken)
    ELSE IF is_locked(U[u], t) THEN
        Outcome(U, S,
                log_audit_event(A, u, "login_failure", "failure", ip_address, user_agent,
                    [email |-> email(u), reason |-> "account_locked"]),
                403, "Account is temporarily locked due to failed login attempts",
                NoToken, NoToken)
    ELSE IF ~verify_password(password, U[u].password_hash) THEN
        LET user == failed_attempt(U[u], t)
            U1 == [U EXCEPT ![u] = user]
        IN  IF max_attempts_reached(user.failed_login_attempts) THEN
                \* db.commit(); the one audit event of this attempt is account_locked
                Outcome(U1, S,
                        log_audit_event(A, u, "account_locked", "success", ip_address, user_agent,
                            [email |-> email(u), attempts |-> user.failed_login_attempts,
                             locked_until |-> user.locked_until]),
                        403, "Account locked due to too many failed login attempts",
                        NoToken, NoToken)
            ELSE
                Outcome(U1, S,
                        log_audit_event(A, u, "login_failure", "failure", ip_address, user_agent,
                            [email |-> email(u), reason |-> "invalid_password",
                             attempt |-> user.failed_login_attempts]),
                        401, "Invalid credentials", NoToken, NoToken)
    ELSE
        \* first commit: the account; second commit: the session; third: the audit row
        LET U1 == [U EXCEPT ![u] = successful_attempt(U[u], t)]
            access_token == create_access_token(u, role(u), t)
            refresh_token == create_refresh_token(u, t)
            session == login_session(u, refresh_token, ip_address, user_agent, t)
        IN  IF unique_violation(S, session) THEN
                \* IntegrityError out of the second commit: the first one stands
                Outcome(U1, S, A, 500, "IntegrityError", NoToken, NoToken)
            ELSE
                Outcome(U1, Append(S, session),
                        log_audit_event(A, u, "login_success", "success", ip_address, user_agent,
                            [email |-> email(u), session_id |-> Len(S) + 1]),
                        200, "OK", access_token, refresh_token)

\* a or b
py_or(a, b) == IF a = None THEN b ELSE a

\* The session row of a refresh (lines 232-239).
refresh_session(old, refresh_token, ip_address, user_agent, t) ==
    SessionModel(old.user_id, refresh_token, py_or(ip_address, old.ip_address),
                 py_or(user_agent, old.user_agent), old.device_type,
                 t + REFRESH_TOKEN_EXPIRE)

\* Faulty variant: the presented row is overwritten with the new session.
commit_rotation_replaces_old(S, sid, new_session) ==
    IF unique_violation(S, new_session)
    THEN [ok |-> FALSE, sessions |-> S]
    ELSE [ok |-> TRUE, sessions |-> [S EXCEPT ![sid] = new_session]]

\* Faulty variant: the presented session is not revoked.
commit_rotation_keeps_old(S, sid, new_session) ==
    IF unique_violation(S, new_session)
    THEN [ok |-> FALSE, sessions |-> S]
    ELSE [ok |-> TRUE, sessions |-> Append(S, new_session)]

\* Faulty variant: the revocation is committed before the INSERT is tried.
commit_rotation_revokes_first(S, sid, new_session) ==
    IF unique_violation(S, new_session)
    THEN [ok |-> FALSE, sessions |-> [S EXCEPT ![sid].is_revoked = TRUE]]
    ELSE [ok |-> TRUE, sessions |-> Append([S EXCEPT ![sid].is_revoked = TRUE], new_session)]

\* session.is_revoked = True; db.add(new_session); db.commit(): one
\* transaction, UPDATE by primary key then INSERT.  ok is FALSE when the
\* INSERT raises IntegrityError and the transaction is rolled back.
commit_rotation(S, sid, new_session) ==
    IF unique_violation(S, new_session)
    THEN [ok |-> FALSE, sessions |-> S]
    ELSE [ok |-> TRUE, sessions |-> Append([S EXCEPT ![sid].is_revoked = TRUE], new_session)]

\* Faulty variant: the activation flag is not tested.
no_active_user_flag_ignored(U, user_id) == user_id \notin UserIds

\* Line 214: not user or not user.is_active
no_active_user(U, user_id) == user_id \notin UserIds \/ ~U[user_id].is_active

\* Faulty variant: a locked account is refused like an inactive one.
refresh_access_token_checks_lock(U, S, A, t, refresh_token, ip_address, user_agent) ==
    LET sid == find_session(S, refresh_token) IN
    IF sid = 0 THEN
        Outcome(U, S, A, 401, "Invalid refresh token", NoToken, NoToken)
    ELSE IF ~is_valid(S[sid], t) THEN
        Outcome(U, S, A, 401, "Refresh token has expired or been revoked", NoToken, NoToken)
    ELSE IF \/ S[sid].user_id \notin UserIds
            \/ ~U[S[sid].user_id].is_active
            \/ is_locked(U[S[sid].user_id], t) THEN
        Outcome(U, S, A, 401, "User not found or inactive", NoToken, NoToken)
    ELSE
        LET u == S[sid].user_id
            new_session == refresh_session(S[sid], create_refresh_token(u, t),
                                           ip_address, user_agent, t)
            c == commit_rotation(S, sid, new_session)
        IN  IF ~c.ok THEN
                Outcome(U, c.sessions, A, 500, "IntegrityError", NoToken, NoToken)
            ELSE
                Outcome(U, c.sessions,
                        log_audit_event(A, u, "token_refresh", "success", ip_address, user_agent,
                            [session_id |-> Len(c.sessions)]),
                        200, "OK", create_access_token(u, role(u), t), create_refresh_token(u, t))

refresh_access_token(U, S, A, t, refresh_token, ip_address, user_agent) ==
    LET sid == find_session(S, refresh_token) IN
    IF sid = 0 THEN
        Outcome(U, S, A, 401, "Invalid refresh token", NoToken, NoToken)
    ELSE IF ~is_valid(S[sid], t) THEN
        Outcome(U, S, A, 401, "Refresh token has expired or been revoked", NoToken, NoToken)
    ELSE IF no_active_user(U, S[sid].user_id) THEN
        Outcome(U, S, A, 401, "User not found or inactive", NoToken, NoToken)
    ELSE
        LET u == S[sid].user_id
            new_access_token == create_access_token(u, role(u), t)
            new_refresh_token == create_refresh_token(u, t)
            new_session == refresh_session(S[sid], new_refresh_token, ip_address, user_agent, t)
            c == commit_rotation(S, sid, new_session)
        IN  IF ~c.ok THEN
                \* the table as the failed commit leaves it
                Outcome(U, c.sessions, A, 500, "IntegrityError", NoToken, NoToken)
            ELSE
                Outcome(U, c.sessions,
                        log_audit_event(A, u, "token_refresh", "success", ip_address, user_agent,
                            [session_id |-> Len(c.sessions)]),
                        200, "OK", new_access_token, new_refresh_token)

\* Faulty variant: the supplied token is ignored.
revoke_sessions_ignores_token(S, u, refresh_token) ==
    [i \in 1..Len(S) |->
        IF S[i].user_id = u /\ S[i].is_revoked = FALSE
        THEN [S[i] EXCEPT !.is_revoked = TRUE] ELSE S[i]]

\* Faulty variant: without a token only the first open session is revoked.
revoke_sessions_first_only(S, u, refresh_token) ==
    LET open == {i \in 1..Len(S) : S[i].user_id = u /\ S[i].is_revoked = FALSE}
        sid == IF refresh_token # NoToken THEN find_user_session(S, u, refresh_token)
               ELSE IF open = {} THEN 0
               ELSE CHOOSE i \in open : \A j \in open : i <= j
    IN  IF sid # 0 THEN [S EXCEPT ![sid].is_revoked = TRUE] ELSE S

\* Lines 270-284: the rows of table sessions after the revocation.
revoke_sessions(S, u, refresh_token) ==
    IF refresh_token # NoToken THEN
        LET sid == find_user_session(S, u, refresh_token) IN
        IF sid # 0 THEN [S EXCEPT ![sid].is_revoked = TRUE] ELSE S
    ELSE
        [i \in 1..Len(S) |->
            IF S[i].user_id = u /\ S[i].is_revoked = FALSE
            THEN [S[i] EXCEPT !.is_revoked = TRUE] ELSE S[i]]

\* Faulty variant: the payload does not tell the two kinds of logout apart.
logout_user_payload_all(U, S, A, t, u, refresh_token, ip_address, user_agent) ==
    Outcome(U, revoke_sessions(S, u, refresh_token),
            log_audit_event(A, u, "logout", "success", ip_address, user_agent,
                [logout_type |-> "all_devices"]),
            200, "OK", NoToken, NoToken)

\* Faulty variant: the logout is not audited.
logout_user_skips_audit(U, S, A, t, u, refresh_token, ip_address, user_agent) ==
    Outcome(U, revoke_sessions(S, u, refresh_token), A, 200, "OK", NoToken, NoToken)

logout_user(U, S, A, t, u, refresh_token, ip_address, user_agent) ==
    Outcome(U, revoke_sessions(S, u, refresh_token),
            log_audit_event(A, u, "logout", "success", ip_address, user_agent,
                [logout_type |-> IF refresh_token # NoToken THEN "single" ELSE "all_devices"]),
            200, "OK", NoToken, NoToken)

(***************************************************************************)
(* core/dependencies.py                                                    *)
(***************************************************************************)
\* UUID(user_id_str) raises ValueError on a string that is no UUID.
is_uuid(s) == s \in UserIds \cup {GhostId}

\* Faulty variant: the guard also asks for a valid session of the subject.
get_current_user_needs_session(U, t, token) ==
    LET payload == decode_token(token, t) IN
    IF payload = NoToken THEN
        [status |-> 401, detail |-> "Invalid or expired token", user |-> None]
    ELSE IF payload.type # "access" THEN
        [status |-> 401, detail |-> "Invalid token type", user |-> None]
    ELSE IF payload.sub = None THEN
        [status |-> 401, detail |-> "Token missing subject claim", user |-> None]
    ELSE IF ~is_uuid(payload.sub) THEN
        [status |-> 401, detail |-> "Invalid user ID in token", user |-> None]
    ELSE IF payload.sub \notin UserIds THEN
        [status |-> 401, detail |-> "User not found", user |-> None]
    ELSE IF ~U[payload.sub].is_active THEN
        [status |-> 403, detail |-> "Account has been deactivated", user |-> None]
    ELSE IF is_locked(U[payload.sub], t) THEN
        [status |-> 403, detail |-> "Account is temporarily locked due to failed login attempts",
         user |-> None]
    ELSE IF ~\E i \in 1..Len(sessions) :
                sessions[i].user_id = payload.sub /\ is_valid(sessions[i], t) THEN
        [status |-> 401, detail |-> "Session revoked", user |-> None]
    ELSE
        [status |-> 200, detail |-> "OK", user |-> payload.sub]

\* The guard of every protected route: the status and, on 200, the user.
get_current_user(U, t, token) ==
    LET payload == decode_token(token, t) IN
    IF payload = NoToken THEN
        [status |-> 401, detail |-> "Invalid or expired token", user |-> None]
    ELSE IF payload.type # "access" THEN
        [status |-> 401, detail |-> "Invalid token type", user |-> None]
    ELSE IF payload.sub = None THEN
        [status |-> 401, detail |-> "Token missing subject claim", user |-> None]
    ELSE IF ~is_uuid(payload.sub) THEN
        [status |-> 401, detail |-> "Invalid user ID in token", user |-> None]
    ELSE IF payload.sub \notin UserIds THEN
        [status |-> 401, detail |-> "User not found", user |-> None]
    ELSE IF ~U[payload.sub].is_active THEN
        [status |-> 403, detail |-> "Account has been deactivated", user |-> None]
    ELSE IF is_locked(U[payload.sub], t) THEN
        [status |-> 403, detail |-> "Account is temporarily locked due to failed login attempts",
         user |-> None]
    ELSE
        [status |-> 200, detail |-> "OK", user |-> payload.sub]

\* role_hierarchy.get(role, default)
role_hierarchy == [user |-> 1, manager |-> 2, admin |-> 3]

role_level(r, default) ==
    IF r \in DOMAIN role_hierarchy THEN role_hierarchy[r] ELSE default

\* Faulty variant: <= for <.
role_checker_needs_higher(user_role, required_role) ==
    IF role_level(user_role, 0) <= role_level(required_role, 999)
    THEN [status |-> 403, detail |-> "Insufficient permissions"]
    ELSE [status |-> 200, detail |-> "OK"]

\* require_role(required_role): the check on current_user.role (the detail
\* also names the required role).
role_checker(user_role, required_role) ==
    IF role_level(user_role, 0) < role_level(required_role, 999)
    THEN [status |-> 403, detail |-> "Insufficient permissions"]
    ELSE [status |-> 200, detail |-> "OK"]

\* POST /auth/logout as a function of the store: current_user comes from
\* the guard, the body's refresh_token (or None) goes to logout_user, the
\* response is LogoutResponse (message, logged_out_at).  The endpoint's
\* source ends after the refresh_token line; the call and the response are
\* those of the specification's API section.
logout_endpoint(U, S, A, t, bearer, refresh_token, ip_address, user_agent) ==
    LET g == get_current_user(U, t, bearer) IN
    IF g.status # 200
    THEN Outcome(U, S, A, g.status, g.detail, NoToken, NoToken)
    ELSE [logout_user(U, S, A, t, g.user, refresh_token, ip_address, user_agent)
             EXCEPT !.detail = "Logged out successfully"]

(***************************************************************************)
(* services/user_service.py, api/v1/users.py                               *)
(***************************************************************************)
\* Faulty variant: a password change also clears the failed-attempt
\* counter and the lockout-expiry.
change_password_resets_lockout(U, S, A, t, u, current_password, new_password, ip_address, user_agent) ==
    IF ~verify_password(current_password, U[u].password_hash) THEN
        Outcome(U, S,
                log_audit_event(A, u, "password_change", "failure", ip_address, user_agent,
                    [reason |-> "invalid_current_password"]),
                400, "Current password is incorrect", NoToken, NoToken)
    ELSE
        Outcome([U EXCEPT ![u].password_hash = hash_password(new_password),
                          ![u].failed_login_attempts = 0,
                          ![u].locked_until = NullTime], S,
                log_audit_event(A, u, "password_change", "success", ip_address, user_agent,
                    [reason |-> None]),
                200, "OK", NoToken, NoToken)

\* UserService.change_password: the audit row and 400 on a wrong current
\* password; else the new digest, db.commit(), the audit row (its metadata
\* is empty, here reason None).
change_password(U, S, A, t, u, current_password, new_password, ip_address, user_agent) ==
    IF ~verify_password(current_password, U[u].password_hash) THEN
        Outcome(U, S,
                log_audit_event(A, u, "password_change", "failure", ip_address, user_agent,
                    [reason |-> "invalid_current_password"]),
                400, "Current password is incorrect", NoToken, NoToken)
    ELSE
        Outcome([U EXCEPT ![u].password_hash = hash_password(new_password)], S,
                log_audit_event(A, u, "password_change", "success", ip_address, user_agent,
                    [reason |-> None]),
                200, "OK", NoToken, NoToken)

\* POST /users/me/password: current_user comes from the guard.
change_password_endpoint(U, S, A, t, bearer, current_password, new_password, ip_address, user_agent) ==
    LET g == get_current_user(U, t, bearer) IN
    IF g.status # 200
    THEN Outcome(U, S, A, g.status, g.detail, NoToken, NoToken)
    ELSE [change_password(U, S, A, t, g.user, current_password, new_password,
                          ip_address, user_agent)
             EXCEPT !.detail = IF @ = "OK" THEN "Password changed successfully" ELSE @]

(***************************************************************************)
(* The sequential specification: one request at a time, each handler run   *)
(* to its end in one step.                                                 *)
(***************************************************************************)
Workers == {"w1", "w2"}

\* A request in flight: its position, its arguments, and what its ORM
\* session holds (the session row as loaded, the pending INSERT); db is the
\* request's store handle: "none", "open" or "closed".
NoRow == SessionModel(None, NoToken, None, None, None, 0)

\* No User object loaded.
NoUser == [UserRow(FALSE) EXCEPT !.password_hash = <<>>]

IdleWorker ==
    [pc |-> "idle", token |-> NoToken, ip_address |-> None, user_agent |-> None,
     sid |-> 0, row |-> NoRow, new_session |-> NoRow,
     new_access_token |-> NoToken, status |-> 0, detail |-> None,
     identifier |-> None, password |-> None, uid |-> None,
     user |-> NoUser, dirty |-> NoUser, reason |-> None, db |-> "none"]

Request(op, identifier, password, token, out) ==
    [op |-> op, identifier |-> identifier, password |-> password, token |-> token,
     status |-> out.status, detail |-> out.detail,
     access_token |-> out.access_token, refresh_token |-> out.refresh_token,
     role |-> None, required_role |-> None]

NoRequest ==
    [op |-> None, identifier |-> None, password |-> None, token |-> NoToken,
     status |-> 0, detail |-> None, access_token |-> NoToken, refresh_token |-> NoToken,
     role |-> None, required_role |-> None]

InitStore(u2_active) ==
    /\ now = 0
    /\ users = [u \in UserIds |-> UserRow(IF u = "u2" THEN u2_active ELSE TRUE)]
    /\ sessions = <<>>
    /\ audit_log = <<>>

Init ==
    /\ \E a \in BOOLEAN : InitStore(a)
    /\ last = NoRequest
    /\ rotated = {}
    /\ killed = {}
    /\ streak = [u \in UserIds |-> 0]
    /\ workers = [w \in Workers |-> IdleWorker]

\* The model's bounds on the two tables that grow.
WithinBounds(out) ==
    /\ Len(out.sessions) <= MaxSessions
    /\ Len(out.audit_log) <= MaxAudit

Commit(out) ==
    /\ users' = out.users
    /\ sessions' = out.sessions
    /\ audit_log' = out.audit_log

\* The number of wrong-password logins in a row since the account had
\* counter 0 and no lockout-expiry; -1 once a login with the right password
\* has left another state.
NextStreak(out, u, password) ==
    IF ~verify_password(password, users[u].password_hash)
    THEN IF streak[u] < 0 \/ streak[u] >= MAX_FAILED_LOGIN_ATTEMPTS
         THEN streak[u] ELSE streak[u] + 1
    ELSE IF out.users[u].failed_login_attempts = 0 /\ out.users[u].locked_until = NullTime
         THEN 0 ELSE 0 - 1

\* POST /auth/login
LoginAttempt(identifier, password, ctx) ==
    LET out == authenticate_user(users, sessions, audit_log, now,
                                 identifier, password, ctx[1], ctx[2])
        u == find_user(identifier)
    IN  /\ Commit(out)
        /\ last' = Request("login", identifier, password, NoToken, out)
        /\ streak' = IF u = None THEN streak
                     ELSE [streak EXCEPT ![u] = NextStreak(out, u, password)]
        /\ UNCHANGED <<now, rotated, killed, workers>>

Login(identifier, password, ctx) ==
    /\ WithinBounds(authenticate_user(users, sessions, audit_log, now,
                                      identifier, password, ctx[1], ctx[2]))
    /\ LoginAttempt(identifier, password, ctx)

\* POST /auth/refresh
Refresh(token, ctx) ==
    LET out == refresh_access_token(users, sessions, audit_log, now, token, ctx[1], ctx[2])
    IN  /\ WithinBounds(out)
        /\ Commit(out)
        /\ last' = Request("refresh", None, None, token, out)
        /\ rotated' = IF out.status = 200 THEN rotated \cup {token} ELSE rotated
        /\ UNCHANGED <<now, killed, streak, workers>>

\* POST /auth/logout: current_user comes from get_current_user, so the
\* caller holds an access token that the guard admits.
Logout(u, token, ctx) ==
    LET out == logout_user(users, sessions, audit_log, now, u, token, ctx[1], ctx[2])
    IN  /\ get_current_user(users, now, create_access_token(u, role(u), now)).status = 200
        /\ WithinBounds(out)
        /\ Commit(out)
        /\ last' = Request("logout", u, None, token, out)
        /\ killed' = IF token = NoToken
                     THEN killed \cup {sessions[i].refresh_token :
                                         i \in {j \in 1..Len(sessions) : sessions[j].user_id = u}}
                     ELSE killed
        /\ UNCHANGED <<now, rotated, streak, workers>>

\* Faulty variant: the guard writes an audit row for the request.
Authorize_audits(token) ==
    LET g == get_current_user(users, now, token)
    IN  /\ last' = [NoRequest EXCEPT !.op = "authorize", !.token = token,
                                     !.status = g.status, !.detail = g.detail,
                                     !.identifier = g.user]
        /\ audit_log' = log_audit_event(audit_log, g.user, "authorize", "success",
                                        None, None, [status |-> g.status])
        /\ UNCHANGED <<now, users, sessions, rotated, killed, streak, workers>>

\* A protected route: Depends(get_current_user).
Authorize(token) ==
    LET g == get_current_user(users, now, token)
    IN  /\ last' = [NoRequest EXCEPT !.op = "authorize", !.token = token,
                                     !.status = g.status, !.detail = g.detail,
                                     !.identifier = g.user]
        /\ UNCHANGED <<now, users, sessions, audit_log, rotated, killed, streak, workers>>

Tick ==
    /\ now < MaxTime
    /\ now' = now + 1
    /\ UNCHANGED <<users, sessions, audit_log, last, rotated, killed, streak, workers>>

\* Tokens a client can present: those of the sessions, the access token of
\* the last response, a string that is no token.
SessionTokens == {sessions[i].refresh_token : i \in 1..Len(sessions)}

PresentedTokens == (SessionTokens \cup {last.access_token, GarbageToken}) \ {NoToken}

Next ==
    \/ \E identifier \in Identifiers, password \in Passwords, ctx \in Contexts :
          Login(identifier, password, ctx)
    \/ \E token \in PresentedTokens, ctx \in Contexts : Refresh(token, ctx)
    \/ \E u \in UserIds, token \in PresentedTokens \cup {NoToken}, ctx \in Contexts :
          Logout(u, token, ctx)
    \/ \E token \in PresentedTokens : Authorize(token)
    \/ Tick

Spec == Init /\ [][Next]_vars

(***************************************************************************)
(* Login attempts only, with room for a lockout and what follows it.       *)
(***************************************************************************)
LoginOnly(identifier, password, ctx) ==
    LET out == authenticate_user(users, sessions, audit_log, now,
                                 identifier, password, ctx[1], ctx[2])
    IN  /\ Len(out.sessions) <= MaxSessions
        /\ Len(out.audit_log) <= MaxLoginAudit
        /\ LoginAttempt(identifier, password, ctx)

NextLogin ==
    \/ \E identifier \in Identifiers, password \in Passwords, ctx \in Contexts :
          LoginOnly(identifier, password, ctx)
    \/ Tick

SpecLogin == Init /\ [][NextLogin]_vars

(***************************************************************************)
(* The access guard and the role gate on the accounts that logins leave.   *)
(***************************************************************************)
\* Subjects of bearer tokens signed with the key: the accounts, a
\* well-formed id without a row, a string that is no UUID, no sub claim.
BearerSubjects == UserIds \cup {GhostId, BadUuid, None}

\* Bearer tokens: the refresh tokens of the sessions, a string that is no
\* token, and access tokens just minted or just expired.
BearerTokens ==
    SessionTokens \cup {GarbageToken}
    \cup {create_access_token(sub, role(sub), t) :
            sub \in BearerSubjects,
            t \in {now, now - ACCESS_TOKEN_EXPIRE - 1} \cap (0..MaxTime)}

\* Values of users.role and of require_role's argument.
Roles == {"user", "manager", "admin", "guest"}

\* A route with Depends(require_role(required_role)), reached by a caller
\* the guard admitted, whose row holds user_role.
RoleGate(user_role, required_role) ==
    LET c == role_checker(user_role, required_role)
    IN  /\ last' = [NoRequest EXCEPT !.op = "require_role", !.role = user_role,
                                     !.required_role = required_role,
                                     !.status = c.status, !.detail = c.detail]
        /\ UNCHANGED <<now, users, sessions, audit_log, rotated, killed, streak, workers>>

NextGuard ==
    \/ \E identifier \in Identifiers, password \in Passwords, ctx \in Contexts :
          Login(identifier, password, ctx)
    \/ \E token \in BearerTokens : Authorize(token)
    \/ \E user_role \in Roles, required_role \in Roles : RoleGate(user_role, required_role)
    \/ Tick

SpecGuard == Init /\ [][NextGuard]_vars

(***************************************************************************)
(* Concurrent refresh requests.  Each worker has its own ORM session and   *)
(* transaction (db/session.py: one SessionLocal() per request) on a        *)
(* READ COMMITTED store: a SELECT reads the rows committed so far, the     *)
(* objects it loaded keep their values until the commit, and the flush     *)
(* writes by primary key.  The UPDATE and the INSERT of a commit take the  *)
(* row locks and publish together, so a commit is one step.                *)
(***************************************************************************)
Finish(w, status, detail) ==
    workers' = [workers EXCEPT ![w].pc = "done", ![w].status = status, ![w].detail = detail]

\* The request arrives (api/v1/auth.py, refresh_token).
RefreshBegin(w, token, ctx) ==
    /\ workers[w].pc = "idle"
    /\ workers' = [workers EXCEPT ![w] = [IdleWorker EXCEPT !.pc = "select", !.token = token,
                                              !.ip_address = ctx[1], !.user_agent = ctx[2]]]
    /\ UNCHANGED <<now, users, sessions, audit_log, last, rotated, killed, streak>>

\* Lines 194-210: SELECT the session row, then test the loaded object.
RefreshSelect(w) ==
    LET sid == find_session(sessions, workers[w].token) IN
    /\ workers[w].pc = "select"
    /\ IF sid = 0 THEN Finish(w, 401, "Invalid refresh token")
       ELSE IF ~is_valid(sessions[sid], now)
            THEN Finish(w, 401, "Refresh token has expired or been revoked")
       ELSE workers' = [workers EXCEPT ![w].pc = "load_user", ![w].sid = sid,
                                       ![w].row = sessions[sid]]
    /\ UNCHANGED <<now, users, sessions, audit_log, last, rotated, killed, streak>>

\* Lines 212-240: lazy-load session.user, mint the tokens, mark the loaded
\* object revoked and add the new row to the ORM session.
RefreshLoadUser(w) ==
    LET row == workers[w].row
        u == row.user_id
    IN
    /\ workers[w].pc = "load_user"
    /\ IF u \notin UserIds \/ ~users[u].is_active
       THEN Finish(w, 401, "User not found or inactive")
       ELSE workers' = [workers EXCEPT
                ![w].pc = "commit",
                ![w].row = [row EXCEPT !.is_revoked = TRUE],
                ![w].new_access_token = create_access_token(u, role(u), now),
                ![w].new_session = refresh_session(row, create_refresh_token(u, now),
                                        workers[w].ip_address, workers[w].user_agent, now)]
    /\ UNCHANGED <<now, users, sessions, audit_log, last, rotated, killed, streak>>

\* Line 241: db.commit().
RefreshCommit(w) ==
    LET c == commit_rotation(sessions, workers[w].sid, workers[w].new_session) IN
    /\ workers[w].pc = "commit"
    /\ sessions' = c.sessions
    /\ IF c.ok THEN workers' = [workers EXCEPT ![w].pc = "audit"]
       ELSE Finish(w, 500, "IntegrityError")
    /\ UNCHANGED <<now, users, audit_log, last, rotated, killed, streak>>

\* Lines 243-254: the audit row, then the response.
RefreshAudit(w) ==
    /\ workers[w].pc = "audit"
    /\ audit_log' = log_audit_event(audit_log, workers[w].row.user_id, "token_refresh",
                        "success", workers[w].ip_address, workers[w].user_agent,
                        [session_id |-> find_session(sessions,
                                            workers[w].new_session.refresh_token)])
    /\ Finish(w, 200, "OK")
    /\ UNCHANGED <<now, users, sessions, last, rotated, killed, streak>>

\* The store after one login of u1 at second 0, one second later; the
\* token of that login is the one both requests present.
RaceLogin ==
    authenticate_user([u \in UserIds |-> UserRow(TRUE)], <<>>, <<>>, 0,
                      "u1@portal.dev", GoodPassword, "10.0.0.7", "Mozilla/5.0 (iPhone)")

InitRefreshRace ==
    /\ now = 1
    /\ users = RaceLogin.users
    /\ sessions = RaceLogin.sessions
    /\ audit_log = RaceLogin.audit_log
    /\ last = NoRequest
    /\ rotated = {}
    /\ killed = {}
    /\ streak = [u \in UserIds |-> 0]
    /\ workers = [w \in Workers |-> IdleWorker]

NextRefreshRace ==
    \/ \E w \in Workers, ctx \in Contexts : RefreshBegin(w, RaceLogin.refresh_token, ctx)
    \/ \E w \in Workers : RefreshSelect(w)
    \/ \E w \in Workers : RefreshLoadUser(w)
    \/ \E w \in Workers : RefreshCommit(w)
    \/ \E w \in Workers : RefreshAudit(w)
    \/ Tick

SpecRefreshRace == InitRefreshRace /\ [][NextRefreshRace]_vars

(***************************************************************************)
(* Concurrent login requests, one round trip to the store per step.  The   *)
(* User object a request loaded keeps its values until the request's      *)
(* commit; the flush of a commit writes, by primary key, the columns whose *)
(* value the request changed (the ORM's UPDATE names only those), and each *)
(* db.commit() is a transaction of its own: the account (lines 100, 121,   *)
(* 146), the session (line 166), the audit row (audit_service.py:49).      *)
(* A request can stop at any step: the process dies, the connection drops  *)
(* or the statement raises; what it had not committed is lost.             *)
(***************************************************************************)
InFlight == {"l_select", "l_commit_account", "l_commit_session", "l_audit"}

\* UPDATE users SET <changed columns> WHERE id = ...: the row after it.
flush_user(current, loaded, dirty) ==
    [f \in DOMAIN current |-> IF dirty[f] # loaded[f] THEN dirty[f] ELSE current[f]]

\* The request arrives (api/v1/auth.py, login).
LoginBegin(w, identifier, password, ctx) ==
    /\ workers[w].pc = "idle"
    /\ workers' = [workers EXCEPT ![w] = [IdleWorker EXCEPT
                      !.pc = "l_select", !.identifier = identifier, !.password = password,
                      !.ip_address = ctx[1], !.user_agent = ctx[2]]]
    /\ UNCHANGED <<now, users, sessions, audit_log, last, rotated, killed, streak>>

\* Lines 37-99 and 143-145: SELECT the user, then the tests and the
\* assignments on the loaded object.
LoginSelect(w) ==
    LET u == find_user(workers[w].identifier)
        reject(reason, status, detail) ==
            workers' = [workers EXCEPT ![w].pc = "l_audit", ![w].uid = u,
                            ![w].reason = reason, ![w].status = status, ![w].detail = detail]
        change(dirty, reason, status, detail) ==
            workers' = [workers EXCEPT ![w].pc = "l_commit_account", ![w].uid = u,
                            ![w].user = users[u], ![w].dirty = dirty,
                            ![w].reason = reason, ![w].status = status, ![w].detail = detail]
    IN
    /\ workers[w].pc = "l_select"
    /\ IF u = None THEN reject("user_not_found", 401, "Invalid credentials")
       ELSE IF ~users[u].is_active
            THEN reject("account_deactivated", 403, "Account has been deactivated")
       ELSE IF is_locked(users[u], now)
            THEN reject("account_locked", 403,
                        "Account is temporarily locked due to failed login attempts")
       ELSE IF ~verify_password(workers[w].password, users[u].password_hash)
            THEN LET dirty == failed_attempt(users[u], now) IN
                 IF max_attempts_reached(dirty.failed_login_attempts)
                 THEN change(dirty, "locked_now", 403,
                             "Account locked due to too many failed login attempts")
                 ELSE change(dirty, "invalid_password", 401, "Invalid credentials")
       ELSE change(successful_attempt(users[u], now), "success", 200, "OK")
    /\ UNCHANGED <<now, users, sessions, audit_log, last, rotated, killed, streak>>

\* Lines 100, 121, 146: db.commit() of the account.
LoginCommitAccount(w) ==
    LET u == workers[w].uid IN
    /\ workers[w].pc = "l_commit_account"
    /\ users' = [users EXCEPT ![u] = flush_user(users[u], workers[w].user, workers[w].dirty)]
    /\ workers' = [workers EXCEPT ![w].pc = IF workers[w].reason = "success"
                                            THEN "l_commit_session" ELSE "l_audit"]
    /\ UNCHANGED <<now, sessions, audit_log, last, rotated, killed, streak>>

\* Lines 148-166: mint the tokens, add the session row, db.commit().
LoginCommitSession(w) ==
    LET u == workers[w].uid
        session == login_session(u, create_refresh_token(u, now), workers[w].ip_address,
                                 workers[w].user_agent, now)
    IN
    /\ workers[w].pc = "l_commit_session"
    /\ IF unique_violation(sessions, session)
       THEN /\ Finish(w, 500, "IntegrityError")
            /\ UNCHANGED sessions
       ELSE /\ sessions' = Append(sessions, session)
            /\ workers' = [workers EXCEPT ![w].pc = "l_audit", ![w].new_session = session,
                               ![w].new_access_token = create_access_token(u, role(u), now)]
    /\ UNCHANGED <<now, users, audit_log, last, rotated, killed, streak>>

\* The audit row of the attempt (lines 44-52, 60-68, 76-84, 102-114,
\* 123-135, 169-177), then the response.  The User object was expired by
\* the commit, so the metadata reads the committed row.
LoginAudit(w) ==
    LET u == workers[w].uid
        reason == workers[w].reason
        action == IF reason = "success" THEN "login_success"
                  ELSE IF reason = "locked_now" THEN "account_locked"
                  ELSE "login_failure"
        metadata ==
            IF reason = "user_not_found"
            THEN [email_or_username |-> workers[w].identifier, reason |-> reason]
            ELSE IF reason = "success"
            THEN [email |-> email(u),
                  session_id |-> find_session(sessions, workers[w].new_session.refresh_token)]
            ELSE IF reason = "locked_now"
            THEN [email |-> email(u), attempts |-> users[u].failed_login_attempts,
                  locked_until |-> users[u].locked_until]
            ELSE IF reason = "invalid_password"
            THEN [email |-> email(u), reason |-> reason,
                  attempt |-> users[u].failed_login_attempts]
            ELSE [email |-> email(u), reason |-> reason]
    IN
    /\ workers[w].pc = "l_audit"
    /\ audit_log' = log_audit_event(audit_log, u, action,
                        IF reason \in {"success", "locked_now"} THEN "success" ELSE "failure",
                        workers[w].ip_address, workers[w].user_agent, metadata)
    /\ workers' = [workers EXCEPT ![w].pc = "done"]
    /\ UNCHANGED <<now, users, sessions, last, rotated, killed, streak>>

\* The request ends where it is, without a response.
Stop(w) ==
    /\ workers[w].pc \in InFlight
    /\ workers' = [workers EXCEPT ![w].pc = "stopped"]
    /\ UNCHANGED <<now, users, sessions, audit_log, last, rotated, killed, streak>>

\* The store after k wrong-password logins of u1 at second 0.
RECURSIVE FailedLogins(_)
FailedLogins(k) ==
    IF k = 0
    THEN Outcome([u \in UserIds |-> UserRow(TRUE)], <<>>, <<>>, 0, None, NoToken, NoToken)
    ELSE LET prev == FailedLogins(k - 1)
         IN  authenticate_user(prev.users, prev.sessions, prev.audit_log, 0,
                               "u1@portal.dev", "wrong-pw", "10.0.0.7", "Mozilla/5.0 (iPhone)")

InitLoginSteps ==
    /\ now = 0
    /\ \E k \in 0..(MAX_FAILED_LOGIN_ATTEMPTS - 1) :
          /\ users = FailedLogins(k).users
          /\ sessions = FailedLogins(k).sessions
          /\ audit_log = FailedLogins(k).audit_log
    /\ last = NoRequest
    /\ rotated = {}
    /\ killed = {}
    /\ streak = [u \in UserIds |-> 0]
    /\ workers = [w \in Workers |-> IdleWorker]

NextLoginSteps ==
    \/ \E w \in Workers, identifier \in Identifiers, password \in Passwords, ctx \in Contexts :
          LoginBegin(w, identifier, password, ctx)
    \/ \E w \in Workers : LoginSelect(w)
    \/ \E w \in Workers : LoginCommitAccount(w)
    \/ \E w \in Workers : LoginCommitSession(w)
    \/ \E w \in Workers : LoginAudit(w)
    \/ \E w \in Workers : Stop(w)
    \/ Tick

SpecLoginSteps == InitLoginSteps /\ [][NextLoginSteps]_vars

(***************************************************************************)
(* A locked account that holds a session: u1 logged in at second 0, then   *)
(* the threshold of wrong passwords was tried at second 1.  Logins,        *)
(* refreshes and guarded requests follow, and an operator may deactivate   *)
(* an account.                                                             *)
(***************************************************************************)
\* The store after the login of u1 at second 0 and k wrong-password logins
\* of u1 at second 1.
RECURSIVE LockedOut(_)
LockedOut(k) ==
    IF k = 0 THEN RaceLogin
    ELSE LET prev == LockedOut(k - 1)
         IN  authenticate_user(prev.users, prev.sessions, prev.audit_log, 1,
                               "u1@portal.dev", "wrong-pw", "10.0.0.7", "Mozilla/5.0 (iPhone)")

InitLockout ==
    /\ now = 1
    /\ users = LockedOut(MAX_FAILED_LOGIN_ATTEMPTS).users
    /\ sessions = LockedOut(MAX_FAILED_LOGIN_ATTEMPTS).sessions
    /\ audit_log = LockedOut(MAX_FAILED_LOGIN_ATTEMPTS).audit_log
    /\ last = NoRequest
    /\ rotated = {}
    /\ killed = {}
    /\ streak = [u \in UserIds |-> IF u = "u1" THEN MAX_FAILED_LOGIN_ATTEMPTS ELSE 0]
    /\ workers = [w \in Workers |-> IdleWorker]

\* The tables' bounds in this specification: room for MaxLockoutOps audited
\* requests after the lockout.
LockoutBounds(out) ==
    /\ Len(out.sessions) <= MaxSessions
    /\ Len(out.audit_log) <= MAX_FAILED_LOGIN_ATTEMPTS + 1 + MaxLockoutOps

\* POST /auth/login
LockoutLogin(identifier, password, ctx) ==
    /\ LockoutBounds(authenticate_user(users, sessions, audit_log, now,
                                       identifier, password, ctx[1], ctx[2]))
    /\ LoginAttempt(identifier, password, ctx)

\* POST /auth/refresh
LockoutRefresh(token, ctx) ==
    LET out == refresh_access_token(users, sessions, audit_log, now, token, ctx[1], ctx[2])
    IN  /\ LockoutBounds(out)
        /\ Commit(out)
        /\ last' = Request("refresh", None, None, token, out)
        /\ rotated' = IF out.status = 200 THEN rotated \cup {token} ELSE rotated
        /\ UNCHANGED <<now, killed, streak, workers>>

\* users.is_active is written by no handler: an operator clears the flag
\* in the store ("deactivation is a flag flip").
Deactivate(u) ==
    /\ users[u].is_active
    /\ users' = [users EXCEPT ![u].is_active = FALSE]
    /\ last' = [NoRequest EXCEPT !.op = "deactivate", !.identifier = u]
    /\ UNCHANGED <<now, sessions, audit_log, rotated, killed, streak, workers>>

NextLockout ==
    \/ \E identifier \in Identifiers, password \in Passwords, ctx \in Contexts :
          LockoutLogin(identifier, password, ctx)
    \/ \E token \in PresentedTokens, ctx \in Contexts : LockoutRefresh(token, ctx)
    \/ \E token \in BearerTokens : Authorize(token)
    \/ \E u \in UserIds : Deactivate(u)
    \/ Tick

SpecLockout == InitLockout /\ [][NextLockout]_vars

(***************************************************************************)
(* Logins, refreshes and logouts, with guarded requests that present the   *)
(* access tokens issued so far, also after their session was revoked.      *)
(***************************************************************************)
\* Access tokens signed for the accounts up to now (login and refresh mint
\* them with the clock's second; the store keeps no record of them).
IssuedAccessTokens ==
    {create_access_token(u, role(u), t) : u \in UserIds, t \in 0..now}

NextRevocation ==
    \/ \E identifier \in Identifiers, password \in Passwords, ctx \in Contexts :
          Login(identifier, password, ctx)
    \/ \E token \in PresentedTokens, ctx \in Contexts : Refresh(token, ctx)
    \/ \E u \in UserIds, token \in PresentedTokens \cup {NoToken}, ctx \in Contexts :
          Logout(u, token, ctx)
    \/ \E token \in IssuedAccessTokens : Authorize(token)
    \/ Tick

SpecRevocation == Init /\ [][NextRevocation]_vars

(***************************************************************************)
(* A refresh concurrent with a logout from all devices.  The logout's      *)
(* UPDATE ... WHERE user_id = u AND is_revoked = false holds the locks of  *)
(* the rows it matched until its commit, so the UPDATE and the commit are  *)
(* one step; a row inserted later is not among them.                       *)
(***************************************************************************)
\* The request arrives (api/v1/auth.py, logout): the guard has admitted the
\* caller's access token; no refresh_token in the body.
LogoutBegin(w, u, ctx) ==
    /\ workers[w].pc = "idle"
    /\ get_current_user(users, now, create_access_token(u, role(u), now)).status = 200
    /\ workers' = [workers EXCEPT ![w] = [IdleWorker EXCEPT
                      !.pc = "o_revoke", !.uid = u, !.reason = "logout",
                      !.ip_address = ctx[1], !.user_agent = ctx[2]]]
    /\ UNCHANGED <<now, users, sessions, audit_log, last, rotated, killed, streak>>

\* Lines 279-286: the bulk UPDATE of the account's open sessions, db.commit().
LogoutRevoke(w) ==
    LET u == workers[w].uid IN
    /\ workers[w].pc = "o_revoke"
    /\ sessions' = revoke_sessions(sessions, u, NoToken)
    /\ killed' = killed \cup {sessions[i].refresh_token :
                                i \in {j \in 1..Len(sessions) : sessions[j].user_id = u}}
    /\ workers' = [workers EXCEPT ![w].pc = "o_audit"]
    /\ UNCHANGED <<now, users, audit_log, last, rotated, streak>>

\* Lines 288-297: the audit row, then the response.
LogoutAudit(w) ==
    /\ workers[w].pc = "o_audit"
    /\ audit_log' = log_audit_event(audit_log, workers[w].uid, "logout", "success",
                        workers[w].ip_address, workers[w].user_agent,
                        [logout_type |-> "all_devices"])
    /\ Finish(w, 200, "OK")
    /\ UNCHANGED <<now, users, sessions, last, rotated, killed, streak>>

NextLogoutRace ==
    \/ \E w \in Workers, ctx \in Contexts : RefreshBegin(w, RaceLogin.refresh_token, ctx)
    \/ \E w \in Workers : RefreshSelect(w)
    \/ \E w \in Workers : RefreshLoadUser(w)
    \/ \E w \in Workers : RefreshCommit(w)
    \/ \E w \in Workers : RefreshAudit(w)
    \/ \E w \in Workers, ctx \in Contexts : LogoutBegin(w, "u1", ctx)
    \/ \E w \in Workers : LogoutRevoke(w)
    \/ \E w \in Workers : LogoutAudit(w)
    \/ Tick

SpecLogoutRace == InitRefreshRace /\ [][NextLogoutRace]_vars

(***************************************************************************)
(* Password changes among logins.                                          *)
(***************************************************************************)
\* A password that PasswordChangeRequest accepts as new_password, and the
\* passwords a request can carry.
NewPassword == "N3w@Pass!"
NewPasswords == {GoodPassword, NewPassword}
PasswordInputs == Passwords \cup NewPasswords

\* Bearer tokens of the callers: an access token just minted, per account.
FreshAccessTokens == {create_access_token(u, role(u), now) : u \in UserIds}

\* POST /users/me/password
ChangePassword(bearer, current_password, new_password, ctx) ==
    LET out == change_password_endpoint(users, sessions, audit_log, now, bearer,
                                        current_password, new_password, ctx[1], ctx[2])
    IN  /\ WithinBounds(out)
        /\ Commit(out)
        /\ last' = Request("change_password", bearer.sub, current_password, bearer, out)
        /\ UNCHANGED <<now, rotated, killed, streak, workers>>

NextPassword ==
    \/ \E identifier \in Identifiers, password \in PasswordInputs, ctx \in Contexts :
          Login(identifier, password, ctx)
    \/ \E bearer \in FreshAccessTokens, current_password \in PasswordInputs,
          new_password \in NewPasswords, ctx \in Contexts :
          ChangePassword(bearer, current_password, new_password, ctx)
    \/ Tick

SpecPassword == Init /\ [][NextPassword]_vars

(***************************************************************************)
(* db/session.py: the store handle of a request.  get_db is a generator    *)
(* dependency: SessionLocal() when the request starts, the handler runs at *)
(* the yield, and the finally clause runs when the handler has returned or *)
(* raised.  Each worker serves one login request; the handler is one step. *)
(***************************************************************************)
\* Line 39-41: db = SessionLocal(); yield db.
DbAcquire(w, identifier, password, ctx) ==
    /\ workers[w].pc = "idle"
    /\ workers' = [workers EXCEPT ![w] = [IdleWorker EXCEPT
                      !.pc = "d_handler", !.db = "open",
                      !.identifier = identifier, !.password = password,
                      !.ip_address = ctx[1], !.user_agent = ctx[2]]]
    /\ UNCHANGED <<now, users, sessions, audit_log, last, rotated, killed, streak>>

\* The handler with the yielded handle (api/v1/auth.py, login): it returns,
\* or raises HTTPException (401, 403) or SQLAlchemyError (500).
DbHandler(w) ==
    LET out == authenticate_user(users, sessions, audit_log, now, workers[w].identifier,
                                 workers[w].password, workers[w].ip_address,
                                 workers[w].user_agent)
        u == find_user(workers[w].identifier)
    IN  /\ workers[w].pc = "d_handler"
        /\ Commit(out)
        /\ last' = Request("login", workers[w].identifier, workers[w].password, NoToken, out)
        /\ streak' = IF u = None THEN streak
                     ELSE [streak EXCEPT ![u] = NextStreak(out, u, workers[w].password)]
        /\ workers' = [workers EXCEPT
                          ![w].pc = IF out.status = 200 THEN "d_returned" ELSE "d_raised",
                          ![w].status = out.status, ![w].detail = out.detail]
        /\ UNCHANGED <<now, rotated, killed>>

\* Faulty variant: the handle is closed after the handler's return only (no
\* finally clause).
DbClose_on_return_only(w) ==
    /\ workers[w].pc \in {"d_returned", "d_raised"}
    /\ workers' = [workers EXCEPT
                      ![w].pc = "d_ended",
                      ![w].db = IF workers[w].pc = "d_returned" THEN "closed" ELSE @]
    /\ UNCHANGED <<now, users, sessions, audit_log, last, rotated, killed, streak>>

\* Lines 42-43: finally: db.close(), on the return and on every exception.
DbClose(w) ==
    /\ workers[w].pc \in {"d_returned", "d_raised"}
    /\ workers' = [workers EXCEPT ![w].pc = "d_ended", ![w].db = "closed"]
    /\ UNCHANGED <<now, users, sessions, audit_log, last, rotated, killed, streak>>

NextHandles ==
    \/ \E w \in Workers, identifier \in Identifiers, password \in Passwords, ctx \in Contexts :
          DbAcquire(w, identifier, password, ctx)
    \/ \E w \in Workers : DbHandler(w)
    \/ \E w \in Workers : DbClose(w)

SpecHandles == Init /\ [][NextHandles]_vars

\* The server runs the handler and the generator's exit code to the end.
FairSpecHandles ==
    /\ SpecHandles
    /\ \A w \in Workers : WF_vars(DbHandler(w)) /\ WF_vars(DbClose(w))

(***************************************************************************)
(* Properties.  The handlers are functions of the store, so a property of  *)
(* every call made in a reachable state is an invariant over the inputs;   *)
(* a property of the call a step makes is an action property.              *)
(***************************************************************************)
Ctx == CHOOSE ctx \in Contexts : TRUE

Refreshed(token) ==
    refresh_access_token(users, sessions, audit_log, now, token, Ctx[1], Ctx[2])

LoggedIn(identifier, password) ==
    authenticate_user(users, sessions, audit_log, now, identifier, password, Ctx[1], Ctx[2])

LoggedOut(u, token) ==
    logout_user(users, sessions, audit_log, now, u, token, Ctx[1], Ctx[2])

WrongPassword(u, password) == ~verify_password(password, users[u].password_hash)

\* C1: a refresh token serves one successful refresh: in every state after
\* a refresh(T) has succeeded, refresh(T) fails Unauthorized and changes no
\* table; there is no second success.
C1_AntiReplay ==
    \A token \in rotated :
        /\ Refreshed(token).status = 401
        /\ Refreshed(token).sessions = sessions
        /\ Refreshed(token).audit_log = audit_log

\* A replayed token has been presented again and refused.
C1_Witness ==
    /\ last.op = "refresh"
    /\ last.token \in rotated
    /\ last.status = 401

\* C2: two refresh(T) requests in flight for the same valid token T: when
\* both have ended (T still unexpired, no storage error), exactly one has
\* succeeded and the other has failed Unauthorized.
C2_ExactlyOneRotates ==
    (/\ \A w \in Workers : workers[w].pc = "done" /\ workers[w].status # 500
     /\ \A i \in 1..Len(sessions) :
           sessions[i].refresh_token = RaceLogin.refresh_token => ~is_expired(sessions[i], now))
    => \E w \in Workers :
          /\ workers[w].status = 200
          /\ \A v \in Workers \ {w} : workers[v].status = 401

\* C3: for an active account, after N wrong-password logins in a row from
\* counter 0 and no lockout-expiry, N below the threshold, the counter is N
\* and the lockout-expiry is still NULL.
C3_CounterCountsFailures ==
    \A u \in UserIds :
        (users[u].is_active /\ streak[u] >= 0 /\ streak[u] < MAX_FAILED_LOGIN_ATTEMPTS)
        => /\ users[u].failed_login_attempts = streak[u]
           /\ users[u].locked_until = NullTime

\* The last attempt below the threshold has just failed.
C3_Witness ==
    \E u \in UserIds :
        /\ users[u].is_active
        /\ streak[u] = MAX_FAILED_LOGIN_ATTEMPTS - 1
        /\ streak[u] > 0
        /\ last.op = "login" /\ find_user(last.identifier) = u
        /\ last.status = 401

\* C4: the wrong-password login that brings the counter to the threshold
\* sets the lockout-expiry to now + the lockout duration and fails
\* Forbidden; while now is before the lockout-expiry every login of the
\* account, whatever the password, fails Forbidden and leaves the account
\* (so also the lockout-expiry) as it is.
C4_LockoutHolds ==
    \A identifier \in Identifiers, password \in Passwords :
        LET u == find_user(identifier)
            out == LoggedIn(identifier, password)
        IN  (u # None /\ users[u].is_active) =>
              /\ (/\ ~is_locked(users[u], now)
                  /\ WrongPassword(u, password)
                  /\ users[u].failed_login_attempts + 1 = MAX_FAILED_LOGIN_ATTEMPTS)
                 => /\ out.users[u].locked_until = now + ACCOUNT_LOCKOUT_DURATION
                    /\ out.status = 403
              /\ is_locked(users[u], now)
                 => /\ out.status = 403
                    /\ out.users = users

\* A login with the right password has just been refused on a locked account.
C4_Witness ==
    \E u \in UserIds :
        /\ last.op = "login" /\ find_user(last.identifier) = u
        /\ last.password = GoodPassword
        /\ last.status = 403
        /\ users[u].is_active
        /\ users[u].failed_login_attempts = MAX_FAILED_LOGIN_ATTEMPTS
        /\ is_locked(users[u], now)

\* C5: a successful login leaves the account with counter 0 and no
\* lockout-expiry, whatever they were before.
C5_SuccessResets ==
    /\ \A identifier \in Identifiers, password \in Passwords :
          LET u == find_user(identifier)
              out == LoggedIn(identifier, password)
          IN  out.status = 200 =>
                /\ out.users[u].failed_login_attempts = 0
                /\ out.users[u].locked_until = NullTime
    /\ (last.op = "login" /\ last.status = 200) =>
          /\ users[find_user(last.identifier)].failed_login_attempts = 0
          /\ users[find_user(last.identifier)].locked_until = NullTime

\* A login has just succeeded on an account that had been locked (counter at
\* the threshold, lockout-expiry passed).
C5_Witness ==
    \E u \in UserIds :
        /\ last.op = "login" /\ find_user(last.identifier) = u
        /\ last.status = 200
        /\ \E i \in 1..Len(audit_log) :
              audit_log[i].action = "account_locked" /\ audit_log[i].user_id = u
        /\ users[u].failed_login_attempts = 0
        /\ users[u].locked_until = NullTime

\* C6: logout(u, T) with a token sets the revocation flag of the session
\* matching (u, T) and changes no other row of table sessions, so every
\* other session is as valid as before and a refresh with its token ends as
\* it would have ended without the logout.
C6_LogoutOneSession ==
    \A u \in UserIds, token \in PresentedTokens :
        LET out == LoggedOut(u, token) IN
        /\ Len(out.sessions) = Len(sessions)
        /\ out.users = users
        /\ \A i \in 1..Len(sessions) :
              IF sessions[i].user_id = u /\ sessions[i].refresh_token = token
              THEN out.sessions[i] = [sessions[i] EXCEPT !.is_revoked = TRUE]
              ELSE /\ out.sessions[i] = sessions[i]
                   /\ refresh_access_token(out.users, out.sessions, out.audit_log, now,
                          sessions[i].refresh_token, Ctx[1], Ctx[2]).status
                      = Refreshed(sessions[i].refresh_token).status

\* A logout with a token has just revoked one of two sessions of the
\* account; the other one is valid and a refresh with it succeeds.
C6_Witness ==
    /\ last.op = "logout"
    /\ last.token # NoToken
    /\ \E i, j \in 1..Len(sessions) :
          /\ i # j
          /\ sessions[i].user_id = last.identifier
          /\ sessions[j].user_id = last.identifier
          /\ sessions[i].refresh_token = last.token
          /\ sessions[i].is_revoked
          /\ is_valid(sessions[j], now)
          /\ Refreshed(sessions[j].refresh_token).status = 200

\* C7: logout(u) without a token leaves every session of u revoked and
\* every session of another account as it was; from then on a refresh with
\* a token that a session of u carried at that logout fails Unauthorized.
C7_LogoutAllSessions ==
    /\ \A u \in UserIds :
          LET out == LoggedOut(u, NoToken) IN
          /\ Len(out.sessions) = Len(sessions)
          /\ \A i \in 1..Len(sessions) :
                IF sessions[i].user_id = u
                THEN out.sessions[i] = [sessions[i] EXCEPT !.is_revoked = TRUE]
                ELSE out.sessions[i] = sessions[i]
    /\ \A token \in killed :
          /\ Refreshed(token).status = 401
          /\ \E i \in 1..Len(sessions) :
                sessions[i].refresh_token = token /\ sessions[i].is_revoked

\* A refresh with an unexpired token of the logged-out account has just been
\* refused, while a session of another account is still valid.
C7_Witness ==
    /\ last.op = "refresh"
    /\ last.token \in killed
    /\ last.status = 401
    /\ \E i, j \in 1..Len(sessions) :
          /\ sessions[i].refresh_token = last.token
          /\ ~is_expired(sessions[i], now)
          /\ sessions[j].user_id # sessions[i].user_id
          /\ is_valid(sessions[j], now)

\* C8: the access guard answers Unauthorized to every token whose kind is
\* not access: to the refresh token of every session, also while the session
\* is valid and its account active and unlocked, and to the refresh token of
\* the last response.
C8_GuardRejectsRefreshKind ==
    /\ \A i \in 1..Len(sessions) :
          get_current_user(users, now, sessions[i].refresh_token).status = 401
    /\ last.refresh_token # NoToken =>
          get_current_user(users, now, last.refresh_token).status = 401
    /\ (last.op = "authorize" /\ last.token.type # "access") => last.status = 401

\* The refresh token of a valid session of an active, unlocked account has
\* just been presented as a bearer token and refused for its kind.
C8_Witness ==
    /\ last.op = "authorize"
    /\ last.status = 401
    /\ last.detail = "Invalid token type"
    /\ \E i \in 1..Len(sessions) :
          /\ sessions[i].refresh_token = last.token
          /\ is_valid(sessions[i], now)
          /\ users[sessions[i].user_id].is_active
          /\ ~is_locked(users[sessions[i].user_id], now)

\* C9: an access token minted by login or refresh is the key of no session,
\* and a refresh with it fails Unauthorized.
C9_RefreshRejectsAccessKind ==
    /\ \A i \in 1..Len(sessions) : sessions[i].refresh_token.type = "refresh"
    /\ last.access_token # NoToken =>
          /\ last.access_token.type = "access"
          /\ find_session(sessions, last.access_token) = 0
          /\ Refreshed(last.access_token).status = 401
    /\ (last.op = "refresh" /\ last.token.type = "access") => last.status = 401

\* The access token of a response has just been presented to refresh and
\* refused.
C9_Witness ==
    /\ last.op = "refresh"
    /\ last.token.sig = "ok"
    /\ last.token.type = "access"
    /\ last.status = 401

\* C10: the wrong-password login that reaches the threshold appends two
\* audit events, login_failure and then account_locked; every other login
\* that ends in a response of the handler appends exactly one.
C10_AuditEventsPerAttempt ==
    [][\A identifier \in Identifiers, password \in Passwords, ctx \in Contexts :
          (LoginAttempt(identifier, password, ctx) /\ last'.status # 500) =>
             LET u == find_user(identifier)
                 n == Len(audit_log)
             IN  IF /\ u # None
                    /\ users[u].is_active
                    /\ ~is_locked(users[u], now)
                    /\ WrongPassword(u, password)
                    /\ users[u].failed_login_attempts + 1 >= MAX_FAILED_LOGIN_ATTEMPTS
                 THEN /\ Len(audit_log') = n + 2
                      /\ audit_log'[n + 1].action = "login_failure"
                      /\ audit_log'[n + 2].action = "account_locked"
                 ELSE Len(audit_log') = n + 1]_vars

\* The rows of seq are the first rows of longer, unchanged.
IsPrefix(seq, longer) ==
    /\ Len(seq) <= Len(longer)
    /\ \A i \in 1..Len(seq) : longer[i] = seq[i]

\* C11: a successful login adds one session (of the account, keyed by the
\* returned refresh token, not revoked, expiring at now + the refresh TTL)
\* after the unchanged rows of table sessions, and one login_success audit
\* event of the account after the unchanged audit log.
C11_LoginCreatesOneSession ==
    \A identifier \in Identifiers, password \in Passwords :
        LET u == find_user(identifier)
            out == LoggedIn(identifier, password)
            n == Len(sessions)
            m == Len(audit_log)
        IN  out.status = 200 =>
              /\ Len(out.sessions) = n + 1
              /\ IsPrefix(sessions, out.sessions)
              /\ out.sessions[n + 1].user_id = u
              /\ out.sessions[n + 1].refresh_token = out.refresh_token
              /\ out.refresh_token # NoToken
              /\ out.sessions[n + 1].is_revoked = FALSE
              /\ out.sessions[n + 1].expires_at = now + REFRESH_TOKEN_EXPIRE
              /\ Len(out.audit_log) = m + 1
              /\ IsPrefix(audit_log, out.audit_log)
              /\ out.audit_log[m + 1].action = "login_success"
              /\ out.audit_log[m + 1].user_id = u

\* A login has just succeeded next to an older session; its session is the
\* last row and carries the returned token.
C11_Witness ==
    /\ last.op = "login"
    /\ last.status = 200
    /\ Len(sessions) >= 2
    /\ sessions[Len(sessions)].refresh_token = last.refresh_token
    /\ sessions[Len(sessions)].expires_at = now + REFRESH_TOKEN_EXPIRE
    /\ audit_log[Len(audit_log)].action = "login_success"

\* C12: every login attempt ends in the outcome its first applicable case
\* gives: no account 401; inactive 403; locked 403; wrong password reaching
\* the threshold 403 with the account locked; wrong password below it 401;
\* right password 200 with a token pair.  In the first three cases the
\* outcome is the same for every password.
C12_LoginOutcomeOrder ==
    \A identifier \in Identifiers, password \in Passwords :
        LET u == find_user(identifier)
            out == LoggedIn(identifier, password)
        IN  IF u = None THEN
                /\ out.status = 401
                /\ \A p \in Passwords : LoggedIn(identifier, p) = out
            ELSE IF ~users[u].is_active THEN
                /\ out.status = 403
                /\ \A p \in Passwords : LoggedIn(identifier, p) = out
            ELSE IF users[u].locked_until # NullTime /\ now < users[u].locked_until THEN
                /\ out.status = 403
                /\ \A p \in Passwords : LoggedIn(identifier, p) = out
            ELSE IF WrongPassword(u, password)
                    /\ users[u].failed_login_attempts + 1 >= MAX_FAILED_LOGIN_ATTEMPTS THEN
                /\ out.status = 403
                /\ out.users[u].locked_until = now + ACCOUNT_LOCKOUT_DURATION
            ELSE IF WrongPassword(u, password) THEN
                /\ out.status = 401
                /\ out.users[u].locked_until = NullTime
            ELSE
                /\ out.status = 200
                /\ out.access_token # NoToken
                /\ out.refresh_token # NoToken

\* C13: a login rejected for a missing, inactive or locked account leaves
\* table users and table sessions as they are and appends one login_failure
\* audit event, with a null account reference when the account is missing.
C13_RejectedLoginFrame ==
    \A identifier \in Identifiers, password \in Passwords :
        LET u == find_user(identifier)
            out == LoggedIn(identifier, password)
            m == Len(audit_log)
            rejected == \/ u = None
                        \/ ~users[u].is_active
                        \/ users[u].locked_until # NullTime /\ now < users[u].locked_until
        IN  rejected =>
              /\ out.status \in {401, 403}
              /\ out.users = users
              /\ out.sessions = sessions
              /\ Len(out.audit_log) = m + 1
              /\ IsPrefix(audit_log, out.audit_log)
              /\ out.audit_log[m + 1].action = "login_failure"
              /\ out.audit_log[m + 1].user_id = u
              /\ u = None => out.audit_log[m + 1].user_id = None

\* A login with a wrong password has just been refused on a locked account
\* and the counter stands where the lock left it.
C13_Witness ==
    \E u \in UserIds :
        /\ last.op = "login" /\ find_user(last.identifier) = u
        /\ last.password # GoodPassword
        /\ last.status = 403
        /\ users[u].locked_until # NullTime /\ now < users[u].locked_until
        /\ users[u].failed_login_attempts = MAX_FAILED_LOGIN_ATTEMPTS
        /\ audit_log[Len(audit_log)].action = "login_failure"
        /\ audit_log[Len(audit_log)].metadata.reason = "account_locked"

C15_RefreshFailures ==
    \A token \in PresentedTokens :
        LET sid == find_session(sessions, token)
            out == Refreshed(token)
            absent == sid = 0
            invalid == sid # 0 /\ (sessions[sid].is_revoked \/ is_expired(sessions[sid], now))
            inactive == sid # 0 /\ ~users[sessions[sid].user_id].is_active
        IN  (absent \/ invalid \/ inactive) =>
              /\ out.status = 401
              /\ out.users = users /\ out.sessions = sessions /\ out.audit_log = audit_log
              /\ (absent \/ invalid) =>
                    \A other \in PresentedTokens :
                        LET oid == find_session(sessions, other) IN
                        (oid = 0 \/ sessions[oid].is_revoked \/ is_expired(sessions[oid], now))
                        => Refreshed(other).detail = out.detail

\* C18: a session is usable exactly when it is not revoked and the clock
\* is strictly before its expiry; a refresh with the token of a session
\* whose expiry the clock has reached does not succeed.
C18_UsableStrictlyBeforeExpiry ==
    \A i \in 1..Len(sessions) :
        /\ is_valid(sessions[i], now) <=> (~sessions[i].is_revoked /\ now < sessions[i].expires_at)
        /\ now = sessions[i].expires_at => Refreshed(sessions[i].refresh_token).status # 200

\* C20: the audit log only grows at its end: every step leaves the rows it
\* had in place and unchanged.
C20_AuditAppendOnly ==
    [][IsPrefix(audit_log, audit_log')]_vars

\* The log holds events of different operations, the older ones first.
C20_Witness ==
    /\ Len(audit_log) >= 3
    /\ audit_log[1].action \in {"login_success", "login_failure"}
    /\ audit_log[Len(audit_log)].action \in {"token_refresh", "logout"}
    /\ last.op \in {"refresh", "logout"}

\* No login request is under way.
Quiescent == \A w \in Workers : workers[w].pc \notin InFlight

\* C16: the account change of a successful login (counter reset, lockout
\* cleared, last-login stamped) and the session of that login are durable
\* together: when no request is under way, an account whose last-login time
\* is stamped has a session created at or after that time, also when a
\* request failed or stopped on its way.
C16_AccountAndSessionTogether ==
    Quiescent =>
        \A u \in UserIds :
            users[u].last_login_at # NullTime =>
                \E i \in 1..Len(sessions) :
                    /\ sessions[i].user_id = u
                    /\ sessions[i].expires_at >= users[u].last_login_at + REFRESH_TOKEN_EXPIRE

\* C17: a durable change has its audit event: when no request is under
\* way, every session row has the login_success or token_refresh event that
\* names it, every locked account its account_locked event, every account
\* with failed attempts counted a login_failure or account_locked event,
\* also when a request stopped or its audit write failed.
C17_AuditWithStateChange ==
    Quiescent =>
        /\ \A i \in 1..Len(sessions) :
              \E k \in 1..Len(audit_log) :
                  /\ audit_log[k].action \in {"login_success", "token_refresh"}
                  /\ audit_log[k].metadata.session_id = i
        /\ \A u \in UserIds :
              /\ users[u].locked_until # NullTime =>
                    \E k \in 1..Len(audit_log) :
                        audit_log[k].action = "account_locked" /\ audit_log[k].user_id = u
              /\ users[u].failed_login_attempts > 0 =>
                    \E k \in 1..Len(audit_log) :
                        /\ audit_log[k].action \in {"login_failure", "account_locked"}
                        /\ audit_log[k].user_id = u

\* C19: in every state, under every interleaving of login requests, an
\* account with a lockout-expiry has its counter at or above the threshold.
C19_LockImpliesThreshold ==
    \A u \in UserIds :
        users[u].locked_until # NullTime =>
            users[u].failed_login_attempts >= MAX_FAILED_LOGIN_ATTEMPTS

\* C21: every step leaves each session row in place with its owner, token
\* and expiry, and a revoked row revoked; the only change of a row is
\* is_revoked becoming TRUE; a row is added only by a login or a refresh
\* that succeeds, one row at a time.
C21_SessionsOnlyGrowAndRevoke ==
    [][/\ Len(sessions') >= Len(sessions)
       /\ \A i \in 1..Len(sessions) :
             \/ sessions'[i] = sessions[i]
             \/ /\ ~sessions[i].is_revoked
                /\ sessions'[i] = [sessions[i] EXCEPT !.is_revoked = TRUE]
       /\ Len(sessions') # Len(sessions) =>
             /\ Len(sessions') = Len(sessions) + 1
             /\ last'.op \in {"login", "refresh"}
             /\ last'.status = 200
             /\ sessions'[Len(sessions')].refresh_token = last'.refresh_token]_vars

\* After a login, a refresh and a logout: the rotated row and its
\* replacement are both in the table, revoked.
C21_Witness ==
    /\ Len(sessions) >= 2
    /\ rotated # {}
    /\ last.op = "logout"
    /\ \E i, j \in 1..Len(sessions) :
          /\ i < j
          /\ sessions[i].refresh_token \in rotated
          /\ sessions[i].is_revoked /\ sessions[j].is_revoked
          /\ sessions[j].refresh_token \notin rotated

\* C22: the guard admits a bearer token exactly when it decodes (signed,
\* exp not passed), its kind is access, its subject is a well-formed id of
\* an account that is active and not locked; otherwise it answers with the
\* first error that applies, in the order: invalid token, wrong kind,
\* missing subject, malformed subject, no account (401), inactive, locked
\* (403).
C22_GuardDecision ==
    \A token \in BearerTokens :
        LET g == get_current_user(users, now, token)
            sub == token.sub
            expected ==
                IF ~(token.sig = "ok" /\ token.exp >= now)
                THEN <<401, "Invalid or expired token">>
                ELSE IF token.type # "access" THEN <<401, "Invalid token type">>
                ELSE IF sub = None THEN <<401, "Token missing subject claim">>
                ELSE IF sub = BadUuid THEN <<401, "Invalid user ID in token">>
                ELSE IF sub \notin DOMAIN users THEN <<401, "User not found">>
                ELSE IF ~users[sub].is_active THEN <<403, "Account has been deactivated">>
                ELSE IF users[sub].locked_until # NullTime /\ now < users[sub].locked_until
                THEN <<403, "Account is temporarily locked due to failed login attempts">>
                ELSE <<200, "OK">>
        IN  /\ <<g.status, g.detail>> = expected
            /\ g.status = 200 => g.user = sub

\* An unexpired access token of a locked account has just been refused 403.
C22_Witness ==
    /\ last.op = "authorize"
    /\ last.status = 403
    /\ last.detail = "Account is temporarily locked due to failed login attempts"
    /\ last.token.type = "access"
    /\ last.token.exp >= now
    /\ users[last.token.sub].failed_login_attempts = MAX_FAILED_LOGIN_ATTEMPTS

\* C23: a step of the guard, admitting or rejecting, leaves tables users,
\* sessions and audit_log as they are.
C23_GuardReadOnly ==
    [][last'.op = "authorize" =>
          /\ users' = users
          /\ sessions' = sessions
          /\ audit_log' = audit_log]_vars

\* The guard has just admitted a request in a store that holds a session
\* and audit rows.
C23_Witness ==
    /\ last.op = "authorize"
    /\ last.status = 200
    /\ Len(sessions) > 0
    /\ Len(audit_log) > 0

\* C24: the role gate admits exactly when the caller's level is at least
\* the required level under user < manager < admin, a role outside the
\* hierarchy ranking below all three; a caller admitted for a required role
\* is admitted for every lower one.
C24_RoleHierarchy ==
    LET known == {"user", "manager", "admin"}
        rank == [r \in Roles |-> IF r = "user" THEN 1 ELSE IF r = "manager" THEN 2
                                 ELSE IF r = "admin" THEN 3 ELSE 0]
        admitted(c, r) == role_checker(c, r).status = 200
    IN  /\ \A c \in Roles, r \in known :
              /\ admitted(c, r) <=> rank[c] >= rank[r]
              /\ ~admitted(c, r) => role_checker(c, r).status = 403
              /\ \A lower \in known : (admitted(c, r) /\ rank[lower] <= rank[r]) => admitted(c, lower)
        /\ \A r \in known : ~admitted("guest", r)
        /\ (last.op = "require_role" /\ last.required_role \in known)
              => (last.status = 200 <=> rank[last.role] >= rank[last.required_role])

\* A caller whose role is outside the hierarchy has just been refused the
\* lowest level.
C24_Witness ==
    /\ last.op = "require_role"
    /\ last.role = "guest"
    /\ last.required_role = "user"
    /\ last.status = 403

\* C25: POST /auth/logout with an access token the guard admits answers 200
\* with the confirmation; with a refresh_token in the body the caller's
\* session with that token is revoked and no other row changes, without a
\* body every session of the caller is revoked and no row of another
\* account changes; one logout audit event of the caller is appended.
C25_LogoutEndpoint ==
    \A u \in UserIds, token \in PresentedTokens \cup {NoToken} :
        LET bearer == create_access_token(u, role(u), now)
            out == logout_endpoint(users, sessions, audit_log, now, bearer, token, Ctx[1], Ctx[2])
            m == Len(audit_log)
        IN  get_current_user(users, now, bearer).status = 200 =>
              /\ out.status = 200
              /\ out.detail = "Logged out successfully"
              /\ out.users = users
              /\ Len(out.sessions) = Len(sessions)
              /\ \A i \in 1..Len(sessions) :
                    IF /\ sessions[i].user_id = u
                       /\ (token = NoToken \/ sessions[i].refresh_token = token)
                    THEN out.sessions[i] = [sessions[i] EXCEPT !.is_revoked = TRUE]
                    ELSE out.sessions[i] = sessions[i]
              /\ Len(out.audit_log) = m + 1
              /\ IsPrefix(audit_log, out.audit_log)
              /\ out.audit_log[m + 1].action = "logout"
              /\ out.audit_log[m + 1].user_id = u

\* A logout with a token in the body has just revoked that session of the
\* caller and written its audit event.
C25_Witness ==
    /\ last.op = "logout"
    /\ last.status = 200
    /\ last.token # NoToken
    /\ \E i \in 1..Len(sessions) :
          /\ sessions[i].user_id = last.identifier
          /\ sessions[i].refresh_token = last.token
          /\ sessions[i].is_revoked
    /\ audit_log[Len(audit_log)].action = "logout"
    /\ audit_log[Len(audit_log)].user_id = last.identifier

\* C26: two wrong-password logins of one account run as concurrent
\* requests from counter c, c + 2 below the threshold: when both have
\* ended, the counter is c + 2.  (Each attempt so far has written one audit
\* row, so c is the length of the audit log less the two requests.)
C26_NoLostIncrement ==
    LET c == Len(audit_log) - 2 IN
    (/\ \A w \in Workers :
           /\ workers[w].pc = "done"
           /\ workers[w].uid = "u1"
           /\ ~verify_password(workers[w].password, users["u1"].password_hash)
     /\ c + 2 < MAX_FAILED_LOGIN_ATTEMPTS)
    => users["u1"].failed_login_attempts = c + 2

\* C27: a refresh leaves table users as it is and table sessions in one of
\* two states: the presented row revoked and the new row (keyed by the
\* returned token) added, when it succeeds; unchanged otherwise, also when
\* the INSERT of the new row fails.
C27_RotationIsOneCommit ==
    \A token \in PresentedTokens :
        LET out == Refreshed(token)
            sid == find_session(sessions, token)
            n == Len(sessions)
        IN  /\ out.users = users
            /\ IF out.status = 200
               THEN /\ sid # 0
                    /\ ~sessions[sid].is_revoked
                    /\ Len(out.sessions) = n + 1
                    /\ \A i \in 1..n :
                          out.sessions[i] = IF i = sid
                                            THEN [sessions[i] EXCEPT !.is_revoked = TRUE]
                                            ELSE sessions[i]
                    /\ out.sessions[n + 1].refresh_token = out.refresh_token
                    /\ ~out.sessions[n + 1].is_revoked
               ELSE out.sessions = sessions

\* A refresh has just failed on the INSERT of the new row: the presented
\* session is still not revoked and no row was added.
C27_Witness ==
    /\ last.op = "refresh"
    /\ last.status = 500
    /\ \E i \in 1..Len(sessions) :
          /\ sessions[i].refresh_token = last.token
          /\ ~sessions[i].is_revoked
          /\ i = Len(sessions)

\* C28: the refresh token that a login or a refresh mints is the token of
\* no session in the store, so the INSERT of its session never fails on the
\* unique constraint; also when the last token of the account was minted
\* in the same second.
C28_MintedTokenIsNew ==
    /\ \A identifier \in Identifiers, password \in Passwords :
          LET u == find_user(identifier)
              out == LoggedIn(identifier, password)
          IN  (/\ u # None
               /\ users[u].is_active /\ ~is_locked(users[u], now)
               /\ verify_password(password, users[u].password_hash))
              => /\ create_refresh_token(u, now) \notin SessionTokens
                 /\ out.status = 200
    /\ \A token \in PresentedTokens :
          LET sid == find_session(sessions, token) IN
          (/\ sid # 0
           /\ is_valid(sessions[sid], now)
           /\ users[sessions[sid].user_id].is_active)
          => /\ create_refresh_token(sessions[sid].user_id, now) \notin SessionTokens
             /\ Refreshed(token).status = 200

\* C29: the session a successful refresh creates has the owner of the
\* presented one, the caller's network address and client string where the
\* caller supplies them and the presented session's otherwise, and the
\* device class that _detect_device_type gives for the client string it
\* stores.
C29_RefreshedSessionContext ==
    \A token \in PresentedTokens,
       ip_address \in {None, "10.0.0.9"},
       user_agent \in {None, "Mozilla/5.0 (X11; Linux x86_64)"} :
        LET out == refresh_access_token(users, sessions, audit_log, now, token,
                                        ip_address, user_agent)
            old == sessions[find_session(sessions, token)]
            new == out.sessions[Len(out.sessions)]
        IN  out.status = 200 =>
              /\ new.user_id = old.user_id
              /\ new.ip_address = IF ip_address # None THEN ip_address ELSE old.ip_address
              /\ new.user_agent = IF user_agent # None THEN user_agent ELSE old.user_agent
              /\ new.device_type = detect_device_type(new.user_agent)

C31_LockoutExpires ==
    \A identifier \in Identifiers, password \in Passwords :
        LET u == find_user(identifier) IN
        (/\ u # None
         /\ users[u].is_active
         /\ users[u].locked_until # NullTime
         /\ now >= users[u].locked_until
         /\ verify_password(password, users[u].password_hash))
        => /\ LoggedIn(identifier, password).status = 200
           /\ LoggedIn(identifier, password).refresh_token # NoToken

\* The account has been locked out and no login of it has succeeded since
\* (the audit log holds its account_locked event and no later login_success).
LockedOutSince(u) ==
    \E k \in 1..Len(audit_log) :
        /\ audit_log[k].action = "account_locked"
        /\ audit_log[k].user_id = u
        /\ \A j \in (k + 1)..Len(audit_log) :
              ~(audit_log[j].action = "login_success" /\ audit_log[j].user_id = u)

\* C32: after a lockout has expired and no login has succeeded since, the
\* counter is still at or above the threshold, and one more wrong password
\* locks the account again at once (Forbidden, lockout-expiry now + the
\* lockout duration) with the counter above the threshold.
C32_RelockAfterExpiry ==
    \A identifier \in Identifiers, password \in Passwords :
        LET u == find_user(identifier)
            out == LoggedIn(identifier, password)
        IN  (/\ u # None
             /\ users[u].is_active
             /\ LockedOutSince(u)
             /\ ~is_locked(users[u], now))
            => /\ users[u].failed_login_attempts >= MAX_FAILED_LOGIN_ATTEMPTS
               /\ WrongPassword(u, password) =>
                     /\ out.status = 403
                     /\ out.users[u].locked_until = now + ACCOUNT_LOCKOUT_DURATION
                     /\ out.users[u].failed_login_attempts > MAX_FAILED_LOGIN_ATTEMPTS

\* Accounts that are active and locked: the lockout-expiry is in the future.
LockedAccounts ==
    {u \in UserIds : users[u].is_active /\ users[u].locked_until # NullTime
                     /\ now < users[u].locked_until}

\* Identifiers that name the account.
IdentifiersOf(u) == {identifier \in Identifiers : find_user(identifier) = u}

\* C33 as stated: while an account is locked, login fails Forbidden and a
\* refresh with a valid session of it does not succeed.
C33_NoTokensWhileLocked ==
    \A u \in LockedAccounts :
        /\ \A identifier \in IdentifiersOf(u), password \in Passwords :
              LoggedIn(identifier, password).status = 403
        /\ \A i \in 1..Len(sessions) :
              (sessions[i].user_id = u /\ is_valid(sessions[i], now))
              => Refreshed(sessions[i].refresh_token).status # 200

\* C33 (amended): while an account is locked, login fails Forbidden
\* whatever the password, creates no session and returns no token, and the
\* access guard fails Forbidden for its unexpired access tokens; refresh
\* does not look at the lock: a refresh with a session of the account ends
\* as it would if the account were not locked, so with a valid session it
\* rotates the session and returns a new token pair (or ends 500 when the
\* minted refresh token is already stored).
C33_LockStopsLoginNotRefresh ==
    \A u \in LockedAccounts :
        /\ \A identifier \in IdentifiersOf(u), password \in Passwords :
              /\ LoggedIn(identifier, password).status = 403
              /\ LoggedIn(identifier, password).sessions = sessions
              /\ LoggedIn(identifier, password).refresh_token = NoToken
        /\ get_current_user(users, now, create_access_token(u, role(u), now)).status = 403
        /\ \A i \in 1..Len(sessions) :
              sessions[i].user_id = u =>
                 LET token == sessions[i].refresh_token
                     out == Refreshed(token)
                     unlocked == refresh_access_token(
                                     [users EXCEPT ![u].locked_until = NullTime],
                                     sessions, audit_log, now, token, Ctx[1], Ctx[2])
                 IN  /\ out.status = unlocked.status
                     /\ out.sessions = unlocked.sessions
                     /\ out.audit_log = unlocked.audit_log
                     /\ out.refresh_token = unlocked.refresh_token
                     /\ out.users = users
                     /\ is_valid(sessions[i], now) =>
                           \/ out.status = 200 /\ out.refresh_token # NoToken
                           \/ /\ out.status = 500
                              /\ create_refresh_token(u, now) \in SessionTokens

\* A refresh has just succeeded for an account that is locked: its session
\* was rotated and a token pair returned, which the guard refuses.
C33_Witness ==
    /\ last.op = "refresh"
    /\ last.status = 200
    /\ last.refresh_token # NoToken
    /\ last.refresh_token.sub \in LockedAccounts
    /\ get_current_user(users, now, last.access_token).status = 403
    /\ \E i \in 1..Len(sessions) :
          sessions[i].refresh_token = last.token /\ sessions[i].is_revoked

C35_NoPasswordOracle ==
    \A u \in UserIds :
        (u \in LockedAccounts \/ ~users[u].is_active) =>
            \A identifier \in IdentifiersOf(u), p1 \in Passwords, p2 \in Passwords :
                /\ LoggedIn(identifier, p1) = LoggedIn(identifier, p2)
                /\ LoggedIn(identifier, p1).users = users
                /\ LoggedIn(identifier, p1).sessions = sessions
                /\ Len(LoggedIn(identifier, p1).audit_log) = Len(audit_log) + 1

\* The correct password has just been refused on a locked account with the
\* response and the audit event a wrong one gets; the counter is where the
\* lockout left it.
C35_Witness ==
    /\ last.op = "login"
    /\ last.password = GoodPassword
    /\ last.status = 403
    /\ find_user(last.identifier) \in LockedAccounts
    /\ users[find_user(last.identifier)].failed_login_attempts = MAX_FAILED_LOGIN_ATTEMPTS
    /\ audit_log[Len(audit_log)].action = "login_failure"
    /\ audit_log[Len(audit_log)].metadata.reason = "account_locked"
    /\ LoggedIn(last.identifier, "wrong-pw").status = 403
    /\ LoggedIn(last.identifier, "wrong-pw").users = users

\* Every access token signed for an account, whenever minted.
AllAccessTokens ==
    {create_access_token(u, role(u), t) : u \in UserIds, t \in 0..MaxTime}

\* The step is a logout or a refresh.
RevocationStep ==
    \/ \E u \in UserIds, token \in PresentedTokens \cup {NoToken}, ctx \in Contexts :
          Logout(u, token, ctx)
    \/ \E token \in PresentedTokens, ctx \in Contexts : Refresh(token, ctx)

\* C36: the access guard's decision does not depend on table sessions: in
\* every state an unexpired access token of an active, unlocked account is
\* admitted, whether or not the account has a valid session, and a logout
\* (of one session or of all) or a refresh leaves the guard's answer to
\* every access token as it was.
C36_GuardIgnoresSessions ==
    /\ [](\A token \in IssuedAccessTokens :
            (/\ token.exp >= now
             /\ users[token.sub].is_active
             /\ ~is_locked(users[token.sub], now))
            => get_current_user(users, now, token).status = 200)
    /\ [][RevocationStep =>
            \A token \in AllAccessTokens :
                get_current_user(users, now, token)' = get_current_user(users, now, token)]_vars

\* The guard has just admitted an unexpired access token of an account
\* whose sessions were all revoked by a logout without a token after the
\* token was minted.
C36_Witness ==
    /\ last.op = "authorize"
    /\ last.status = 200
    /\ last.token.exp >= now
    /\ \E i \in 1..Len(sessions) :
          /\ sessions[i].user_id = last.token.sub
          /\ sessions[i].refresh_token \in killed
          /\ sessions[i].expires_at - REFRESH_TOKEN_EXPIRE = last.token.exp - ACCESS_TOKEN_EXPIRE
    /\ \A i \in 1..Len(sessions) :
          sessions[i].user_id = last.token.sub => sessions[i].is_revoked

\* C37: a refresh(T) of an account concurrent with a logout of the account
\* without a token: when both have ended, the account has no usable
\* session.
C37_LogoutAllLeavesNoSession ==
    (\E w, v \in Workers :
        /\ workers[w].pc = "done" /\ workers[w].reason = None
        /\ workers[v].pc = "done" /\ workers[v].reason = "logout")
    => \A i \in 1..Len(sessions) :
          sessions[i].user_id = "u1" => ~is_valid(sessions[i], now)

\* The usable sessions of an account at second t: not revoked, not expired.
UsableSessions(S, u, t) ==
    {i \in 1..Len(S) : S[i].user_id = u /\ is_valid(S[i], t)}

\* The successful logins of an account: its login_success events.
SuccessfulLogins(u) ==
    {k \in 1..Len(audit_log) :
        audit_log[k].action = "login_success" /\ audit_log[k].user_id = u}

\* C38: with requests handled one after another, a refresh that succeeds
\* revokes one usable session of the account and creates one, so the number
\* of usable sessions of every account is as before; and no account has
\* more usable sessions than successful logins.
C38_RefreshKeepsSessionCount ==
    /\ \A token \in PresentedTokens :
          LET out == Refreshed(token) IN
          out.status = 200 =>
             /\ Len(out.sessions) = Len(sessions) + 1
             /\ \A u \in UserIds :
                   Cardinality(UsableSessions(out.sessions, u, now))
                   = Cardinality(UsableSessions(sessions, u, now))
    /\ \A u \in UserIds :
          Cardinality(UsableSessions(sessions, u, now)) <= Cardinality(SuccessfulLogins(u))

\* A refresh has just succeeded for an account that logged in once and has
\* refreshed before: three session rows, one of them usable.
C38_Witness ==
    /\ last.op = "refresh"
    /\ last.status = 200
    /\ \E u \in UserIds :
          /\ last.refresh_token.sub = u
          /\ Cardinality(SuccessfulLogins(u)) = 1
          /\ Cardinality({i \in 1..Len(sessions) : sessions[i].user_id = u}) = 3
          /\ Cardinality(UsableSessions(sessions, u, now)) = 1

\* C39: change_password of an account the guard admits: with a wrong
\* current password it fails (400), leaves the account row as it is and
\* appends one password_change event with outcome failure; with the correct
\* one it replaces the digest by that of the new password and appends one
\* password_change event with outcome success.  Either way the counter, the
\* lockout-expiry, the other accounts and every session are as before.
C39_ChangePassword ==
    \A bearer \in FreshAccessTokens, current_password \in PasswordInputs,
       new_password \in NewPasswords :
        LET u == bearer.sub
            out == change_password_endpoint(users, sessions, audit_log, now, bearer,
                                            current_password, new_password, Ctx[1], Ctx[2])
            event == out.audit_log[Len(out.audit_log)]
        IN  get_current_user(users, now, bearer).status = 200 =>
              /\ Len(out.audit_log) = Len(audit_log) + 1
              /\ IsPrefix(audit_log, out.audit_log)
              /\ event.action = "password_change" /\ event.user_id = u
              /\ out.sessions = sessions
              /\ \A v \in UserIds \ {u} : out.users[v] = users[v]
              /\ out.users[u].failed_login_attempts = users[u].failed_login_attempts
              /\ out.users[u].locked_until = users[u].locked_until
              /\ IF verify_password(current_password, users[u].password_hash)
                 THEN /\ out.status = 200
                      /\ event.outcome = "success"
                      /\ out.users[u].password_hash = hash_password(new_password)
                      /\ verify_password(new_password, out.users[u].password_hash)
                 ELSE /\ out.status = 400
                      /\ event.outcome = "failure"
                      /\ out.users[u] = users[u]

\* A password has just been changed on an account with failed attempts
\* counted and a valid session: the old password no longer logs in, the
\* counter and the session are as they were.
C39_Witness ==
    /\ last.op = "change_password"
    /\ last.status = 200
    /\ \E u \in UserIds :
          /\ last.identifier = u
          /\ users[u].password_hash = hash_password(NewPassword)
          /\ ~verify_password(last.password, users[u].password_hash)
          /\ users[u].failed_login_attempts > 0
          /\ \E i \in 1..Len(sessions) : sessions[i].user_id = u /\ is_valid(sessions[i], now)
          /\ audit_log[Len(audit_log)].action = "password_change"
          /\ audit_log[Len(audit_log)].outcome = "success"

\* C40: every request that has acquired a store handle releases it: when
\* the request has ended, after a return or after Unauthorized, Forbidden
\* or a storage error was raised, its handle is closed, a handle is open
\* only while its request is being served, and an open handle is
\* eventually closed.
C40_HandleReleased ==
    /\ [](\A w \in Workers :
            /\ workers[w].pc = "d_ended" => workers[w].db = "closed"
            /\ workers[w].db = "open" =>
                  workers[w].pc \in {"d_handler", "d_returned", "d_raised"})
    /\ \A w \in Workers : (workers[w].db = "open") ~> (workers[w].db = "closed")

\* Two requests have ended, one of them with a storage error and the other
\* with a return; both handles are closed.
C40_Witness ==
    /\ \A w \in Workers : workers[w].pc = "d_ended" /\ workers[w].db = "closed"
    /\ \E w, v \in Workers : workers[w].status = 500 /\ workers[v].status = 200

====
